---- MODULE Spec2Model ----
(***************************************************************************)
(* A model of source-console-shell.py: the SourceConsole connection, its   *)
(* reader thread (read_output), the display thread                         *)
(* (display_continuous_output), the main thread (connect, load_cvar_list,  *)
(* the prompt loop of main) and the probe threads that get_completions     *)
(* starts on query_entities.                                               *)
(*                                                                         *)
(* Time is counted in ticks of the 0.01 s poll sleep of get_output.  A     *)
(* deadline is kept as the number of ticks that are left until it; Tick    *)
(* lets one tick pass.  A thread can be delayed for any time between two   *)
(* of its steps.                                                           *)
(*                                                                         *)
(* The text of a chunk is not modelled character by character: a chunk is  *)
(* named by seq, the ordinal of its put by the reader, and a concatenation *)
(* of texts is the sequence of the chunks concatenated.                    *)
(***************************************************************************)
EXTENDS Integers, Sequences, FiniteSets, TLC

\* Bounds of the model.
MaxChunks == 2
TimeoutTicks == 2
MaxProbes == 2

Main == 0
ProbeThreads == 1..MaxProbes
Callers == {Main} \cup ProbeThreads
Prefixes == {"prop"}

VARIABLES
    running,               \* self.running
    sockOpen,              \* self.sock is an open socket (FALSE after close)
    peerUp,                \* the remote process has not closed the connection
    wire,                  \* the command written to the socket last
    output_queue,          \* self.output_queue
    nread,                 \* number of chunks the reader has put
    last_command,          \* self.last_command
    is_autocomplete_query, \* self.is_autocomplete_query, the mode flag
    suppress_output,       \* self.suppress_output
    suppress_lock,         \* holder of self.suppress_lock
    autocomplete_results,  \* self.autocomplete_results, a dict
    query_in_progress,     \* self.query_in_progress, a dict
    last_prefix,           \* SourceConsoleCompleter.last_prefix
    continuous_output,     \* self.continuous_output
    interactive,           \* self.interactive
    pcR,                   \* position of the reader thread
    pcD,                   \* position of the display thread
    pc,                    \* position of the main thread and of each probe thread
    job,                   \* what a caller runs: "cvar", "ent" or "user"
    prefix,                \* query_entities: prefix
    err,                   \* the probe left its try block by an exception
    ret,                   \* what the send_command call that returned last returned
    result,                \* get_output: result
    popped,                \* get_output: every chunk popped by the current call
    left,                  \* get_output: ticks left until stop_time
    sincePop,              \* get_output: ticks since the call or its last pop
    sinceArrival,          \* get_output: ticks since the call or the last put during it
    parse,                 \* query_entities, lines 186-201: the text parsed and the list made of it
    pending,               \* lines of its reply that the remote process has still to send
    lock,                  \* the threads that hold self.lock
    modeAtRead,            \* the mode flag as it was when the reader's recv returned
    autocomplete_lock,     \* the threads and calls that hold self.autocomplete_lock
    completion             \* the get_completions calls in progress

connVars  == <<running, sockOpen, peerUp, wire, last_command, is_autocomplete_query>>
queueVars == <<output_queue, nread>>
suppVars  == <<suppress_output, suppress_lock>>
dictVars  == <<autocomplete_results, query_in_progress, last_prefix>>
confVars  == <<continuous_output, interactive>>
collVars  == <<result, popped, left, sincePop, sinceArrival>>
callVars  == <<pc, job, prefix, err, ret>>
sideVars  == <<parse, pending, lock, modeAtRead, autocomplete_lock>>
vars == <<connVars, queueVars, suppVars, dictVars, confVars, collVars, callVars, pcR, pcD,
          sideVars, completion>>

NoPrefix == "(none)"
NoCommand == "(none)"

----------------------------------------------------------------------------
\* Chunks and dicts.

DataChunk(n, mode) == [seq |-> n, is_probe |-> mode, kind |-> "data"]
ClosedChunk(n) == [seq |-> n, is_probe |-> FALSE, kind |-> "closed"]
ErrorChunk(n) == [seq |-> n, is_probe |-> FALSE, kind |-> "error"]

\* d[k] = v of a Python dict
DictPut(d, k, v) == [x \in DOMAIN d \cup {k} |-> IF x = k THEN v ELSE d[x]]
\* d.get(k, default)
DictGet(d, k, default) == IF k \in DOMAIN d THEN d[k] ELSE default
EmptyDict == [x \in {} |-> FALSE]

Min(a, b) == IF a < b THEN a ELSE b
Max(a, b) == IF a > b THEN a ELSE b

\* A chunk of the answer to find_ent: the whole answer, or its first or second
\* half when the answer arrives in two chunks.
ReplyParts == {"reply", "reply1", "reply2"}
ReplyChunk(part, mode) == [seq |-> 0, is_probe |-> mode, kind |-> part]

\* The names the parse finds in a chunk: other output has the line numbered
\* with its ordinal, the answer to find_ent has the two lines -1 and -2, and
\* the two synthetic messages of the reader match no pattern.
ChunkNames(c) ==
    CASE c.kind = "data" -> {c.seq}
      [] c.kind = "reply" -> {-1, -2}
      [] c.kind = "reply1" -> {-1}
      [] c.kind = "reply2" -> {-2}
      [] OTHER -> {}

\* The names parsed from a collected text.
ParseLines(text) == UNION {ChunkNames(text[i]) : i \in DOMAIN text}

\* result += output, line 120; of a text longer than MaxChunks + 1 chunks the
\* model keeps the first MaxChunks + 1.
Concat(text, c) == IF Len(text) <= MaxChunks THEN Append(text, c) ELSE text

\* A get_output whose test of the tag is the wrong way round.
KeepChunkFlipped(filter_autocomplete, is_autocomplete) ==
    filter_autocomplete \/ is_autocomplete

\* get_output, line 119: whether a popped chunk is added to the result.
KeepChunk(filter_autocomplete, is_autocomplete) ==
    filter_autocomplete \/ ~is_autocomplete

\* The filter_autocomplete argument of the caller's get_output call.
FilterArg(t) == job[t] # "user"

\* The command a caller sends and its is_autocomplete argument.
CommandOf(t) ==
    IF job[t] = "cvar" THEN "cvarlist"
    ELSE IF job[t] = "ent" THEN "find_ent " \o prefix[t]
    ELSE "cmd"
ModeOf(t) == job[t] # "user"

\* No text has been parsed.
NoParse ==
    [text |-> <<>>, prefix |-> <<>>, find_class_names |-> FALSE,
     find_entity_names |-> FALSE, combined_results |-> <<>>, parsed |-> FALSE]

\* The get_completions calls that can run at a time; none has been made.
CompletionCalls == {1}
NoCall ==
    [pc |-> "idle", arg |-> NoPrefix, waited |-> 0, reported |-> {},
     started |-> FALSE, gaveUp |-> FALSE]
NoCalls == [c \in CompletionCalls |-> NoCall]

\* The variables of the parts that a specification leaves out.
InitSide ==
    /\ parse = NoParse
    /\ pending = <<>>
    /\ lock = {}
    /\ modeAtRead = FALSE
    /\ autocomplete_lock = {}

----------------------------------------------------------------------------
Init ==
    /\ InitSide
    /\ completion = NoCalls
    /\ running = FALSE
    /\ sockOpen = FALSE
    /\ peerUp = TRUE
    /\ wire = NoCommand
    /\ output_queue = <<>>
    /\ nread = 0
    /\ last_command = NoCommand
    /\ is_autocomplete_query = FALSE
    /\ suppress_output = FALSE
    /\ suppress_lock = "free"
    /\ autocomplete_results = EmptyDict
    /\ query_in_progress = EmptyDict
    /\ last_prefix = NoPrefix
    /\ interactive \in BOOLEAN
    /\ continuous_output \in BOOLEAN
    /\ continuous_output => interactive
    /\ pcR = "none"
    /\ pcD = "none"
    /\ pc = [t \in Callers |-> IF t = Main THEN "connect" ELSE "idle"]
    /\ job = [t \in Callers |-> IF t = Main THEN "user" ELSE "ent"]
    /\ prefix = [t \in Callers |-> NoPrefix]
    /\ err = [t \in Callers |-> FALSE]
    /\ ret = "none"
    /\ result = [t \in Callers |-> <<>>]
    /\ popped = [t \in Callers |-> <<>>]
    /\ left = [t \in Callers |-> 0]
    /\ sincePop = [t \in Callers |-> TimeoutTicks]
    /\ sinceArrival = [t \in Callers |-> TimeoutTicks]

----------------------------------------------------------------------------
\* The reader thread: read_output.

InGetOutput(t) == pc[t] \in {"g_loop", "g_sleep"}

\* The ordinal of the next put; the count stops at MaxChunks + 1.
NextSeq == Min(nread + 1, MaxChunks + 1)

Enqueue(c) ==
    /\ output_queue' = Append(output_queue, c)
    /\ nread' = NextSeq
    /\ sinceArrival' = [t \in Callers |-> IF InGetOutput(t) THEN 0 ELSE sinceArrival[t]]
    /\ UNCHANGED <<result, popped, left, sincePop>>

\* A loop head that goes on whatever running is.
ReaderLoopOn ==
    /\ pcR = "loop"
    /\ pcR' = "select"
    /\ UNCHANGED <<connVars, queueVars, suppVars, dictVars, confVars, sideVars, completion, collVars, callVars, pcD>>

\* line 70: while self.running
ReaderLoop ==
    /\ pcR = "loop"
    /\ pcR' = IF running THEN "select" ELSE "done"
    /\ UNCHANGED <<connVars, queueVars, suppVars, dictVars, confVars, sideVars, completion, collVars, callVars, pcD>>

\* select times out with nothing to read
ReaderIdle ==
    /\ pcR = "select"
    /\ sockOpen
    /\ pcR' = "loop"
    /\ UNCHANGED <<connVars, queueVars, suppVars, dictVars, confVars, sideVars, completion, collVars, callVars, pcD>>

\* recv returns data; the remote process sends MaxChunks chunks at most
ReaderRecv ==
    /\ pcR = "select"
    /\ sockOpen /\ peerUp
    /\ nread < MaxChunks
    /\ pcR' = "put"
    /\ UNCHANGED <<connVars, queueVars, suppVars, dictVars, confVars, sideVars, completion, collVars, callVars, pcD>>

\* recv returns data, of a remote process that never runs out of output; the
\* model lets it send only while fewer than MaxChunks chunks are queued
ReaderRecvStream ==
    /\ pcR = "select"
    /\ sockOpen /\ peerUp
    /\ Len(output_queue) < MaxChunks
    /\ pcR' = "put"
    /\ UNCHANGED <<connVars, queueVars, suppVars, dictVars, confVars, sideVars, completion, collVars, callVars, pcD>>

\* A put that tags the chunk with the opposite of the mode flag.
ReaderPutOpposite ==
    /\ pcR = "put"
    /\ Enqueue(DataChunk(NextSeq, ~is_autocomplete_query))
    /\ pcR' = "loop"
    /\ UNCHANGED <<connVars, suppVars, dictVars, confVars, sideVars, completion, callVars, pcD>>

\* the data decodes to text: put it with the mode flag as it is now
ReaderPut ==
    /\ pcR = "put"
    /\ Enqueue(DataChunk(NextSeq, is_autocomplete_query))
    /\ pcR' = "loop"
    /\ UNCHANGED <<connVars, suppVars, dictVars, confVars, sideVars, completion, callVars, pcD>>

\* the data decodes to the empty text (errors='ignore'): nothing is put
ReaderEmptyText ==
    /\ pcR = "put"
    /\ pcR' = "loop"
    /\ UNCHANGED <<connVars, queueVars, suppVars, dictVars, confVars, sideVars, completion, collVars, callVars, pcD>>

\* recv returns no data: the remote process closed the connection
ReaderEof ==
    /\ pcR = "select"
    /\ sockOpen /\ ~peerUp
    /\ pcR' = "eof"
    /\ UNCHANGED <<connVars, queueVars, suppVars, dictVars, confVars, sideVars, completion, collVars, callVars, pcD>>

\* lines 74-75: self.running = False
ReaderEofMark ==
    /\ pcR = "eof"
    /\ running' = FALSE
    /\ pcR' = "eof_put"
    /\ UNCHANGED <<sockOpen, peerUp, wire, last_command, is_autocomplete_query>>
    /\ UNCHANGED <<queueVars, suppVars, dictVars, confVars, sideVars, completion, collVars, callVars, pcD>>

\* A reader that tags its "connection closed" message like a chunk it read.
ReaderEofPutTagged ==
    /\ pcR = "eof_put"
    /\ Enqueue([ClosedChunk(NextSeq) EXCEPT !.is_probe = is_autocomplete_query])
    /\ pcR' = "closed"
    /\ UNCHANGED <<connVars, suppVars, dictVars, confVars, sideVars, completion, callVars, pcD>>

\* lines 75-77: put the message
ReaderEofPut ==
    /\ pcR = "eof_put"
    /\ Enqueue(ClosedChunk(NextSeq))
    /\ pcR' = "closed"
    /\ UNCHANGED <<connVars, suppVars, dictVars, confVars, sideVars, completion, callVars, pcD>>

\* socket.error (recv on the socket that close() has closed): continue
ReaderSocketError ==
    /\ pcR = "select"
    /\ ~sockOpen
    /\ pcR' = "loop"
    /\ UNCHANGED <<connVars, queueVars, suppVars, dictVars, confVars, sideVars, completion, collVars, callVars, pcD>>

\* any other exception (select on the closed socket or on None): report and stop
ReaderFatal ==
    /\ pcR = "select"
    /\ ~sockOpen
    /\ Enqueue(ErrorChunk(NextSeq))
    /\ pcR' = "failed"
    /\ UNCHANGED <<connVars, suppVars, dictVars, confVars, sideVars, completion, callVars, pcD>>

\* The remote process closes the connection.
ServerClose ==
    /\ running /\ peerUp
    /\ peerUp' = FALSE
    /\ UNCHANGED <<running, sockOpen, wire, last_command, is_autocomplete_query>>
    /\ UNCHANGED <<queueVars, suppVars, dictVars, confVars, sideVars, completion, collVars, callVars, pcR, pcD>>

----------------------------------------------------------------------------
\* The display thread: display_continuous_output.

DisplayLoop ==
    /\ pcD = "loop"
    /\ pcD' = IF running THEN "acquire" ELSE "done"
    /\ UNCHANGED <<connVars, queueVars, suppVars, dictVars, confVars, sideVars, completion, collVars, callVars, pcR>>

\* A display thread that goes on to the queue whatever suppress_output says.
DisplayAcquireUnsuppressed ==
    /\ pcD = "acquire"
    /\ suppress_lock = "free"
    /\ suppress_lock' = "display"
    /\ pcD' = "get"
    /\ UNCHANGED <<connVars, queueVars, suppress_output, dictVars, confVars, sideVars, completion, collVars, callVars, pcR>>

\* with self.suppress_lock: if self.suppress_output
DisplayAcquire ==
    /\ pcD = "acquire"
    /\ suppress_lock = "free"
    /\ suppress_lock' = "display"
    /\ pcD' = IF suppress_output THEN "suppressed" ELSE "get"
    /\ UNCHANGED <<connVars, queueVars, suppress_output, dictVars, confVars, sideVars, completion, collVars, callVars, pcR>>

\* time.sleep(0.01); continue (the lock is released on leaving the with block)
DisplaySuppressed ==
    /\ pcD = "suppressed"
    /\ suppress_lock' = "free"
    /\ pcD' = "loop"
    /\ UNCHANGED <<connVars, queueVars, suppress_output, dictVars, confVars, sideVars, completion, collVars, callVars, pcR>>

\* output, _ = self.output_queue.get(timeout=0.05); print(output)
DisplayGet ==
    /\ pcD = "get"
    /\ output_queue # <<>>
    /\ output_queue' = Tail(output_queue)
    /\ suppress_lock' = "free"
    /\ pcD' = "loop"
    /\ UNCHANGED <<connVars, nread, suppress_output, dictVars, confVars, sideVars, completion, collVars, callVars, pcR>>

\* queue.Empty after the 0.05 s wait
DisplayEmpty ==
    /\ pcD = "get"
    /\ output_queue = <<>>
    /\ suppress_lock' = "free"
    /\ pcD' = "loop"
    /\ UNCHANGED <<connVars, queueVars, suppress_output, dictVars, confVars, sideVars, completion, collVars, callVars, pcR>>

----------------------------------------------------------------------------
\* Steps shared by the callers: send_command and get_output.

Goto(t, label) == pc' = [pc EXCEPT ![t] = label]

\* get_output, lines 114-115
EnterGetOutput(t) ==
    /\ Goto(t, "g_loop")
    /\ result' = [result EXCEPT ![t] = <<>>]
    /\ popped' = [popped EXCEPT ![t] = <<>>]
    /\ left' = [left EXCEPT ![t] = TimeoutTicks]
    /\ sincePop' = [sincePop EXCEPT ![t] = 0]
    /\ sinceArrival' = [sinceArrival EXCEPT ![t] = 0]

\* What follows a send_command call that returned without waiting.
AfterSend(t) ==
    IF job[t] = "user" /\ continuous_output
    THEN Goto(t, "u_prompt") /\ UNCHANGED collVars
    ELSE EnterGetOutput(t)

\* A send_command without the test of running.
SendCheckUnguarded(t) ==
    /\ pc[t] = "s_check"
    /\ Goto(t, "s_write")
    /\ UNCHANGED <<ret, collVars>>
    /\ UNCHANGED <<connVars, queueVars, suppVars, dictVars, confVars, sideVars, completion, job, prefix, err, pcR, pcD>>

\* send_command, lines 92-94
SendCheck(t) ==
    /\ pc[t] = "s_check"
    /\ IF ~running
       THEN /\ ret' = "NotConnected"
            /\ AfterSend(t)
       ELSE /\ Goto(t, "s_write")
            /\ UNCHANGED <<ret, collVars>>
    /\ UNCHANGED <<connVars, queueVars, suppVars, dictVars, confVars, sideVars, completion, job, prefix, err, pcR, pcD>>

\* send_command, lines 96-99, the socket takes the command
SendWrite(t) ==
    /\ pc[t] = "s_write"
    /\ sockOpen
    /\ last_command' = CommandOf(t)
    /\ is_autocomplete_query' = ModeOf(t)
    /\ wire' = CommandOf(t)
    /\ ret' = "ok"
    /\ IF job[t] = "user"
       THEN Goto(t, "s_wait") /\ UNCHANGED collVars
       ELSE AfterSend(t)
    /\ UNCHANGED <<running, sockOpen, peerUp>>
    /\ UNCHANGED <<queueVars, suppVars, dictVars, confVars, sideVars, completion, job, prefix, err, pcR, pcD>>

\* send_command, lines 96-99 and 107-111: the write raises
SendWriteFails(t) ==
    /\ pc[t] = "s_write"
    /\ ~sockOpen \/ ~peerUp
    /\ last_command' = CommandOf(t)
    /\ is_autocomplete_query' = ModeOf(t)
    /\ running' = FALSE
    /\ ret' = "WriteFailure"
    /\ AfterSend(t)
    /\ UNCHANGED <<sockOpen, peerUp, wire>>
    /\ UNCHANGED <<queueVars, suppVars, dictVars, confVars, sideVars, completion, job, prefix, err, pcR, pcD>>

\* send_command, lines 100-106: the wait ends (output arrived or 0.5 s passed)
SendWait(t) ==
    /\ pc[t] = "s_wait"
    /\ AfterSend(t)
    /\ UNCHANGED <<connVars, queueVars, suppVars, dictVars, confVars, sideVars, completion, job, prefix, err, ret, pcR, pcD>>

\* A get_output that leaves its deadline alone after a pop.
DeadlineKept(ticksLeft) == ticksLeft

\* get_output, line 121: the ticks left after a pop
DeadlineAfterPop(ticksLeft) == TimeoutTicks

\* get_output, lines 116 and 125: the deadline has passed, return result
GetReturn(t) ==
    /\ pc[t] = "g_loop"
    /\ left[t] = 0
    /\ Goto(t, IF job[t] = "user" THEN "u_print" ELSE "p_publish")
    /\ UNCHANGED <<connVars, queueVars, suppVars, dictVars, confVars, sideVars, completion, collVars, job, prefix, err, ret, pcR, pcD>>

\* get_output, lines 116-121: get_nowait returns a chunk
GetPop(t) ==
    /\ pc[t] = "g_loop"
    /\ left[t] > 0
    /\ output_queue # <<>>
    /\ LET c == Head(output_queue) IN
         /\ output_queue' = Tail(output_queue)
         /\ result' = [result EXCEPT ![t] =
                 IF KeepChunk(FilterArg(t), c.is_probe) THEN Concat(@, c) ELSE @]
         /\ popped' = [popped EXCEPT ![t] = Concat(@, c)]
    /\ left' = [left EXCEPT ![t] = DeadlineAfterPop(@)]
    /\ sincePop' = [sincePop EXCEPT ![t] = 0]
    /\ UNCHANGED sinceArrival
    /\ UNCHANGED <<connVars, nread, suppVars, dictVars, confVars, sideVars, completion, callVars, pcR, pcD>>

\* get_output, lines 116-118 and 122-124: queue.Empty, sleep
GetEmpty(t) ==
    /\ pc[t] = "g_loop"
    /\ left[t] > 0
    /\ output_queue = <<>>
    /\ Goto(t, "g_sleep")
    /\ UNCHANGED <<connVars, queueVars, suppVars, dictVars, confVars, sideVars, completion, collVars, job, prefix, err, ret, pcR, pcD>>

\* One tick of time passes: the sleepers of get_output wake up.
Tick ==
    /\ pc' = [t \in Callers |-> IF pc[t] = "g_sleep" THEN "g_loop" ELSE pc[t]]
    /\ left' = [t \in Callers |-> Max(left[t] - 1, 0)]
    /\ sincePop' = [t \in Callers |-> Min(sincePop[t] + 1, TimeoutTicks)]
    /\ sinceArrival' = [t \in Callers |-> Min(sinceArrival[t] + 1, TimeoutTicks)]
    /\ UNCHANGED <<connVars, output_queue, nread, suppVars, dictVars, confVars, sideVars, completion, result, popped>>
    /\ UNCHANGED <<job, prefix, err, ret, pcR, pcD>>

----------------------------------------------------------------------------
\* The probes: load_cvar_list and query_entities.

\* lines 149-150 and 178-179
ProbeSuppress(t) ==
    /\ pc[t] = "p_suppress"
    /\ suppress_lock = "free"
    /\ suppress_output' = TRUE
    /\ Goto(t, "p_drain")
    /\ UNCHANGED <<connVars, queueVars, suppress_lock, dictVars, confVars, sideVars, completion, collVars, job, prefix, err, ret, pcR, pcD>>

\* lines 152 and 181: while not self.output_queue.empty()
ProbeDrainCheck(t) ==
    /\ pc[t] = "p_drain"
    /\ Goto(t, IF output_queue = <<>> THEN "s_check" ELSE "p_drain_get")
    /\ UNCHANGED <<connVars, queueVars, suppVars, dictVars, confVars, sideVars, completion, collVars, job, prefix, err, ret, pcR, pcD>>

\* lines 153 and 182: get_nowait, which raises queue.Empty on an empty queue
ProbeDrainGet(t) ==
    /\ pc[t] = "p_drain_get"
    /\ IF output_queue # <<>>
       THEN /\ output_queue' = Tail(output_queue)
            /\ Goto(t, "p_drain")
            /\ UNCHANGED err
       ELSE /\ UNCHANGED output_queue
            /\ Goto(t, "p_except")
            /\ err' = [err EXCEPT ![t] = TRUE]
    /\ UNCHANGED <<connVars, nread, suppVars, dictVars, confVars, sideVars, completion, collVars, job, prefix, ret, pcR, pcD>>

\* lines 159-167 and 188-205
ProbePublish(t) ==
    /\ pc[t] = "p_publish"
    /\ IF job[t] = "ent"
       THEN /\ autocomplete_results' = DictPut(autocomplete_results, prefix[t], ParseLines(result[t]))
            /\ query_in_progress' = DictPut(query_in_progress, prefix[t], FALSE)
       ELSE UNCHANGED <<autocomplete_results, query_in_progress>>
    /\ result' = [result EXCEPT ![t] = <<>>]
    /\ popped' = [popped EXCEPT ![t] = <<>>]
    /\ Goto(t, "p_finally")
    /\ sinceArrival' = [sinceArrival EXCEPT ![t] = TimeoutTicks]
    /\ UNCHANGED <<connVars, queueVars, suppVars, last_prefix, confVars, sideVars, completion, left, sincePop, job, prefix, err, ret, pcR, pcD>>

\* An except block that publishes the empty set and leaves the in-progress
\* flag set.
ProbeExceptKeepsFlag(t) ==
    /\ pc[t] = "p_except"
    /\ IF job[t] = "ent"
       THEN autocomplete_results' = DictPut(autocomplete_results, prefix[t], {})
       ELSE UNCHANGED autocomplete_results
    /\ Goto(t, "p_finally")
    /\ UNCHANGED <<connVars, queueVars, suppVars, query_in_progress, last_prefix, confVars, sideVars, completion, collVars, job, prefix, err, ret, pcR, pcD>>

\* lines 168-170 and 206-211
ProbeExcept(t) ==
    /\ pc[t] = "p_except"
    /\ IF job[t] = "ent"
       THEN /\ autocomplete_results' = DictPut(autocomplete_results, prefix[t], {})
            /\ query_in_progress' = DictPut(query_in_progress, prefix[t], FALSE)
       ELSE UNCHANGED <<autocomplete_results, query_in_progress>>
    /\ Goto(t, "p_finally")
    /\ UNCHANGED <<connVars, queueVars, suppVars, last_prefix, confVars, sideVars, completion, collVars, job, prefix, err, ret, pcR, pcD>>

\* A probe that resets suppress_output at the end of its try block only, not
\* after an exception.
ProbeFinallyAfterSuccess(t) ==
    /\ pc[t] = "p_finally"
    /\ suppress_lock = "free"
    /\ suppress_output' = IF err[t] THEN suppress_output ELSE FALSE
    /\ Goto(t, IF job[t] = "ent" THEN "done" ELSE "u_prompt")
    /\ job' = [job EXCEPT ![t] = IF @ = "cvar" THEN "user" ELSE @]
    /\ UNCHANGED <<connVars, queueVars, suppress_lock, dictVars, confVars, sideVars, completion, collVars, prefix, err, ret, pcR, pcD>>

\* lines 171-173 and 212-214; load_cvar_list returns into connect, which
\* returns into main, which goes on to the prompt loop
ProbeFinally(t) ==
    /\ pc[t] = "p_finally"
    /\ suppress_lock = "free"
    /\ suppress_output' = FALSE
    /\ Goto(t, IF job[t] = "ent" THEN "done" ELSE "u_prompt")
    /\ job' = [job EXCEPT ![t] = IF @ = "cvar" THEN "user" ELSE @]
    /\ UNCHANGED <<connVars, queueVars, suppress_lock, dictVars, confVars, sideVars, completion, collVars, prefix, err, ret, pcR, pcD>>

----------------------------------------------------------------------------
\* The main thread: connect, the prompt loop of main, close.

Connect ==
    /\ pc[Main] = "connect"
    /\ running' = TRUE
    /\ sockOpen' = TRUE
    /\ pcR' = "loop"
    /\ pcD' = IF continuous_output THEN "loop" ELSE "none"
    /\ Goto(Main, IF interactive THEN "p_suppress" ELSE "s_check")
    /\ job' = [job EXCEPT ![Main] = IF interactive THEN "cvar" ELSE "user"]
    /\ UNCHANGED <<peerUp, wire, last_command, is_autocomplete_query>>
    /\ UNCHANGED <<queueVars, suppVars, dictVars, confVars, sideVars, completion, collVars, prefix, err, ret>>

\* connect fails: main returns and its finally block closes
ConnectRefused ==
    /\ pc[Main] = "connect"
    /\ Goto(Main, "close")
    /\ UNCHANGED <<connVars, queueVars, suppVars, dictVars, confVars, sideVars, completion, collVars, job, prefix, err, ret, pcR, pcD>>

\* main, lines 452-459: a command is typed at the prompt
UserCommand ==
    /\ pc[Main] = "u_prompt"
    /\ Goto(Main, "s_check")
    /\ UNCHANGED <<connVars, queueVars, suppVars, dictVars, confVars, sideVars, completion, collVars, job, prefix, err, ret, pcR, pcD>>

\* main, lines 454-455 and 465-467: exit
UserExit ==
    /\ pc[Main] = "u_prompt"
    /\ Goto(Main, "close")
    /\ UNCHANGED <<connVars, queueVars, suppVars, dictVars, confVars, sideVars, completion, collVars, job, prefix, err, ret, pcR, pcD>>

\* main, lines 415-417 and 462-463: print the collected output
UserPrint ==
    /\ pc[Main] = "u_print"
    /\ result' = [result EXCEPT ![Main] = <<>>]
    /\ popped' = [popped EXCEPT ![Main] = <<>>]
    /\ Goto(Main, IF interactive THEN "u_prompt" ELSE "close")
    /\ sinceArrival' = [sinceArrival EXCEPT ![Main] = TimeoutTicks]
    /\ UNCHANGED <<connVars, queueVars, suppVars, dictVars, confVars, sideVars, completion, left, sincePop, job, prefix, err, ret, pcR, pcD>>

\* A close that closes the socket and leaves running as it is.
CloseKeepsRunning ==
    /\ pc[Main] = "close"
    /\ sockOpen' = FALSE
    /\ Goto(Main, "done")
    /\ UNCHANGED <<running, peerUp, wire, last_command, is_autocomplete_query>>
    /\ UNCHANGED <<queueVars, suppVars, dictVars, confVars, sideVars, completion, collVars, job, prefix, err, ret, pcR, pcD>>

\* close, lines 216-220
Close ==
    /\ pc[Main] = "close"
    /\ running' = FALSE
    /\ sockOpen' = FALSE
    /\ Goto(Main, "done")
    /\ UNCHANGED <<peerUp, wire, last_command, is_autocomplete_query>>
    /\ UNCHANGED <<queueVars, suppVars, dictVars, confVars, sideVars, completion, collVars, job, prefix, err, ret, pcR, pcD>>

\* A thread start that leaves the in-progress flag as it is.
StartProbeFlagLater(t, arg) ==
    /\ pc[t] \in {"idle", "done"}
    /\ \A u \in ProbeThreads : u < t => pc[u] \notin {"idle", "done"}
    /\ interactive /\ job[Main] = "user" /\ pc[Main] \notin {"connect", "close", "done"}
    /\ arg # last_prefix \/ arg \notin DOMAIN autocomplete_results
    /\ last_prefix' = arg
    /\ prefix' = [prefix EXCEPT ![t] = arg]
    /\ err' = [err EXCEPT ![t] = FALSE]
    /\ Goto(t, "p_suppress")
    /\ UNCHANGED <<connVars, queueVars, suppVars, autocomplete_results, query_in_progress, confVars, sideVars, collVars, job, ret, pcR, pcD>>

\* get_completions, lines 245-253 and 286-294: a completion call for an
\* entity command starts a probe thread for its argument
StartProbe(t, arg) ==
    /\ pc[t] \in {"idle", "done"}
    /\ \A u \in ProbeThreads : u < t => pc[u] \notin {"idle", "done"}
    /\ interactive /\ job[Main] = "user" /\ pc[Main] \notin {"connect", "close", "done"}
    /\ arg # last_prefix \/ arg \notin DOMAIN autocomplete_results
    /\ last_prefix' = arg
    /\ query_in_progress' = DictPut(query_in_progress, arg, TRUE)
    /\ prefix' = [prefix EXCEPT ![t] = arg]
    /\ err' = [err EXCEPT ![t] = FALSE]
    /\ Goto(t, "p_suppress")
    /\ UNCHANGED <<connVars, queueVars, suppVars, autocomplete_results, confVars, sideVars, collVars, job, ret, pcR, pcD>>

\* A completion call starts a probe thread; the call itself is left out.
StartProbeAlone(t, arg) == StartProbe(t, arg) /\ UNCHANGED completion

----------------------------------------------------------------------------
Reader ==
    \/ ReaderLoop \/ ReaderIdle \/ ReaderRecv \/ ReaderPut \/ ReaderEmptyText
    \/ ReaderEof \/ ReaderEofMark \/ ReaderEofPut \/ ReaderSocketError \/ ReaderFatal

Display ==
    \/ DisplayLoop \/ DisplayAcquire \/ DisplaySuppressed \/ DisplayGet \/ DisplayEmpty

Caller(t) ==
    \/ SendCheck(t) \/ SendWrite(t) \/ SendWriteFails(t) \/ SendWait(t)
    \/ GetReturn(t) \/ GetPop(t) \/ GetEmpty(t)
    \/ ProbeSuppress(t) \/ ProbeDrainCheck(t) \/ ProbeDrainGet(t)
    \/ ProbePublish(t) \/ ProbeExcept(t) \/ ProbeFinally(t)

MainThread ==
    \/ Connect \/ ConnectRefused \/ UserCommand \/ UserExit \/ UserPrint \/ Close

Next ==
    \/ Reader
    \/ Display
    \/ \E t \in Callers : Caller(t)
    \/ MainThread
    \/ \E arg \in Prefixes : StartProbeAlone(1, arg)
    \/ ServerClose
    \/ Tick

Spec == Init /\ [][Next]_vars

\* The interactive program with continuous output while the user types at the
\* prompt without entering a command: each completion call can start a probe
\* thread, up to MaxProbes of them at a time.
InitOverlap == Init /\ interactive /\ continuous_output

NextOverlap ==
    \/ Reader
    \/ Display
    \/ \E t \in Callers :
          \/ SendCheck(t) \/ SendWrite(t) \/ SendWriteFails(t)
          \/ GetReturn(t) \/ GetPop(t) \/ GetEmpty(t)
          \/ ProbeSuppress(t) \/ ProbeDrainCheck(t) \/ ProbeDrainGet(t)
          \/ ProbePublish(t) \/ ProbeExcept(t) \/ ProbeFinally(t)
    \/ Connect \/ ConnectRefused \/ UserExit \/ Close
    \/ \E t \in ProbeThreads, arg \in Prefixes : StartProbeAlone(t, arg)
    \/ ServerClose
    \/ Tick

SpecOverlap == InitOverlap /\ [][NextOverlap]_vars

\* The session without continuous output at its prompt, load_cvar_list done.
AtPrompt ==
    /\ running = TRUE
    /\ sockOpen = TRUE
    /\ peerUp = TRUE
    /\ wire = "cvarlist"
    /\ output_queue = <<>>
    /\ nread = 0
    /\ last_command = "cvarlist"
    /\ is_autocomplete_query = TRUE
    /\ suppress_output = FALSE
    /\ suppress_lock = "free"
    /\ autocomplete_results = EmptyDict
    /\ query_in_progress = EmptyDict
    /\ last_prefix = NoPrefix
    /\ interactive = TRUE
    /\ continuous_output = FALSE
    /\ pcR = "loop"
    /\ pcD = "none"
    /\ pc = [t \in Callers |-> IF t = Main THEN "u_prompt" ELSE "idle"]
    /\ job = [t \in Callers |-> IF t = Main THEN "user" ELSE "ent"]
    /\ prefix = [t \in Callers |-> NoPrefix]
    /\ err = [t \in Callers |-> FALSE]
    /\ ret = "ok"
    /\ result = [t \in Callers |-> <<>>]
    /\ popped = [t \in Callers |-> <<>>]
    /\ left = [t \in Callers |-> 0]
    /\ sincePop = [t \in Callers |-> TimeoutTicks]
    /\ sinceArrival = [t \in Callers |-> TimeoutTicks]

InitLive == AtPrompt /\ InitSide /\ completion = NoCalls

\* The steps of a probe thread while the connection stands.
ProbeThread(t) ==
    \/ ProbeSuppress(t) \/ ProbeDrainCheck(t) \/ ProbeDrainGet(t)
    \/ SendCheck(t) \/ SendWrite(t)
    \/ GetReturn(t) \/ GetPop(t) \/ GetEmpty(t)
    \/ ProbePublish(t) \/ ProbeExcept(t) \/ ProbeFinally(t)

\* The session at its prompt with a remote process that can go on sending for
\* ever.  The threads are scheduled fairly and time passes.
NextLive ==
    \/ ReaderLoop \/ ReaderIdle \/ ReaderRecvStream \/ ReaderPut
    \/ \E t \in ProbeThreads : ProbeThread(t)
    \/ \E t \in ProbeThreads, arg \in Prefixes : StartProbeAlone(t, arg)
    \/ Tick

SpecLive ==
    /\ InitLive /\ [][NextLive]_vars
    /\ \A t \in ProbeThreads : WF_vars(ProbeThread(t))
    /\ WF_vars(Tick)

----------------------------------------------------------------------------
\* Probing a prefix again.  The remote process answers every find_ent with the
\* same text, in one chunk or in two, and can send other output as well.

ReprobePrefixes == {"prop", "pro"}
FindEntCommands == {"find_ent " \o p : p \in ReprobePrefixes}

\* the remote process takes the find_ent command off the wire and answers
ServerReply ==
    /\ peerUp
    /\ wire \in FindEntCommands
    /\ pending = <<>>
    /\ wire' = NoCommand
    /\ pending' \in {<<"reply">>, <<"reply1", "reply2">>}
    /\ UNCHANGED <<running, sockOpen, peerUp, last_command, is_autocomplete_query>>
    /\ UNCHANGED <<queueVars, suppVars, dictVars, confVars, parse, lock, modeAtRead, autocomplete_lock, completion, collVars, callVars, pcR, pcD>>

\* lines 72-74: recv returns the next chunk of the answer
ReaderRecvReply ==
    /\ pcR = "select"
    /\ sockOpen /\ peerUp
    /\ pending # <<>>
    /\ pcR' = "put_reply"
    /\ UNCHANGED <<connVars, queueVars, suppVars, dictVars, confVars, sideVars, completion, collVars, callVars, pcD>>

\* lines 79-83: the chunk of the answer is put with the mode flag as it is now
ReaderPutReply ==
    /\ pcR = "put_reply"
    /\ output_queue' = Append(output_queue, ReplyChunk(Head(pending), is_autocomplete_query))
    /\ pending' = Tail(pending)
    /\ sinceArrival' = [t \in Callers |-> IF InGetOutput(t) THEN 0 ELSE sinceArrival[t]]
    /\ pcR' = "loop"
    /\ UNCHANGED <<connVars, nread, suppVars, dictVars, confVars, parse, lock, modeAtRead, autocomplete_lock, completion>>
    /\ UNCHANGED <<result, popped, left, sincePop, callVars, pcD>>

\* recv returns other output, of which the remote process sends one chunk
ReaderRecvOther == ReaderRecv /\ nread = 0

\* The remote process answers a find_ent as soon as it is written; when the
\* chunks of the answer arrive is up to the reader's recv.  A probe starts
\* when the answer to the one before has arrived.  With one probe thread at a
\* time and no display loop nothing else takes chunks off the queue, so the
\* except block is never entered.
Answered == wire \notin FindEntCommands

NextReprobe ==
    \/ ServerReply
    \/ Answered /\ ReaderLoop
    \/ Answered /\ ReaderIdle
    \/ Answered /\ ReaderRecvOther
    \/ Answered /\ ReaderPut
    \/ Answered /\ ReaderRecvReply
    \/ Answered /\ ReaderPutReply
    \/ Answered /\ ProbeSuppress(1)
    \/ Answered /\ ProbeDrainCheck(1)
    \/ Answered /\ ProbeDrainGet(1)
    \/ Answered /\ SendCheck(1)
    \/ Answered /\ SendWrite(1)
    \/ Answered /\ GetReturn(1)
    \/ Answered /\ GetPop(1)
    \/ Answered /\ GetEmpty(1)
    \/ Answered /\ ProbePublish(1)
    \/ Answered /\ ProbeFinally(1)
    \/ Answered /\ pending = <<>> /\ \E arg \in ReprobePrefixes : StartProbeAlone(1, arg)
    \/ Answered /\ Tick

SpecReprobe == InitLive /\ [][NextReprobe]_vars

----------------------------------------------------------------------------
\* send_command statement by statement, lines 96-99, with self.lock explicit.

\* A with-statement that enters without waiting for the lock.
SendLockNotWaiting(t) ==
    /\ pc[t] = "s_write"
    /\ lock' = lock \cup {t}
    /\ Goto(t, "s_record")
    /\ UNCHANGED <<connVars, queueVars, suppVars, dictVars, confVars, parse, pending, modeAtRead, autocomplete_lock, completion, collVars, job, prefix, err, ret, pcR, pcD>>

\* line 96: with self.lock
SendLock(t) ==
    /\ pc[t] = "s_write"
    /\ lock = {}
    /\ lock' = {t}
    /\ Goto(t, "s_record")
    /\ UNCHANGED <<connVars, queueVars, suppVars, dictVars, confVars, parse, pending, modeAtRead, autocomplete_lock, completion, collVars, job, prefix, err, ret, pcR, pcD>>

\* line 97: self.last_command = cmd
SendRecordCommand(t) ==
    /\ pc[t] = "s_record"
    /\ last_command' = CommandOf(t)
    /\ Goto(t, "s_mode")
    /\ UNCHANGED <<running, sockOpen, peerUp, wire, is_autocomplete_query>>
    /\ UNCHANGED <<queueVars, suppVars, dictVars, confVars, sideVars, completion, collVars, job, prefix, err, ret, pcR, pcD>>

\* line 98: self.is_autocomplete_query = is_autocomplete
SendRecordMode(t) ==
    /\ pc[t] = "s_mode"
    /\ is_autocomplete_query' = ModeOf(t)
    /\ Goto(t, "s_send")
    /\ UNCHANGED <<running, sockOpen, peerUp, wire, last_command>>
    /\ UNCHANGED <<queueVars, suppVars, dictVars, confVars, sideVars, completion, collVars, job, prefix, err, ret, pcR, pcD>>

\* line 99: the socket takes the command; the lock is released
SendSocket(t) ==
    /\ pc[t] = "s_send"
    /\ sockOpen
    /\ wire' = CommandOf(t)
    /\ ret' = "ok"
    /\ lock' = lock \ {t}
    /\ IF job[t] = "user"
       THEN Goto(t, "s_wait") /\ UNCHANGED collVars
       ELSE AfterSend(t)
    /\ UNCHANGED <<running, sockOpen, peerUp, last_command, is_autocomplete_query>>
    /\ UNCHANGED <<queueVars, suppVars, dictVars, confVars, parse, pending, modeAtRead, autocomplete_lock, completion, job, prefix, err, pcR, pcD>>

\* lines 99 and 107-111: the write raises; the lock is released on the way out
SendSocketFails(t) ==
    /\ pc[t] = "s_send"
    /\ ~sockOpen \/ ~peerUp
    /\ running' = FALSE
    /\ ret' = "WriteFailure"
    /\ lock' = lock \ {t}
    /\ AfterSend(t)
    /\ UNCHANGED <<sockOpen, peerUp, wire, last_command, is_autocomplete_query>>
    /\ UNCHANGED <<queueVars, suppVars, dictVars, confVars, parse, pending, modeAtRead, autocomplete_lock, completion, job, prefix, err, pcR, pcD>>

\* The session at its prompt with a remote process that sends nothing: the
\* user enters commands while completion calls start probe threads.
WriterThread(t) ==
    \/ SendCheck(t) \/ SendLock(t) \/ SendRecordCommand(t) \/ SendRecordMode(t)
    \/ SendSocket(t) \/ SendSocketFails(t) \/ SendWait(t)
    \/ GetReturn(t) \/ GetEmpty(t)
    \/ ProbeSuppress(t) \/ ProbeDrainCheck(t) \/ ProbePublish(t) \/ ProbeFinally(t)

NextWrite ==
    \/ \E t \in Callers : WriterThread(t)
    \/ UserCommand \/ UserPrint \/ UserExit \/ Close
    \/ \E t \in ProbeThreads, arg \in Prefixes : StartProbeAlone(t, arg)
    \/ ServerClose
    \/ Tick

SpecWrite == InitLive /\ [][NextWrite]_vars

----------------------------------------------------------------------------
\* get_completions for an entity command, lines 238-276 and 279-317.

\* The code polls while less than 1.0 s have passed and sleeps 0.05 s after
\* each poll, 20 polls; the model polls PollCeiling times.
PollCeiling == 3

CallOver(c) == completion[c].pc \in {"idle", "returned"}

\* lines 244-253 and 285-294: the argument is not the cached prefix; the call
\* starts a probe thread and goes on to poll
CompletionStart(c, t, arg) ==
    /\ CallOver(c)
    /\ StartProbe(t, arg)
    /\ completion' = [completion EXCEPT ![c] =
                         [pc |-> "poll", arg |-> arg, waited |-> 0, reported |-> {},
                          started |-> TRUE, gaveUp |-> FALSE]]

\* lines 254-262 and 295-303: the argument is the cached prefix
CompletionCached(c, arg) ==
    /\ CallOver(c)
    /\ interactive /\ job[Main] = "user" /\ pc[Main] \notin {"connect", "close", "done"}
    /\ ~(arg # last_prefix \/ arg \notin DOMAIN autocomplete_results)
    /\ completion' = [completion EXCEPT ![c] =
                         [pc |-> "returned", arg |-> arg, waited |-> 0,
                          reported |-> DictGet(autocomplete_results, arg, {}),
                          started |-> FALSE, gaveUp |-> FALSE]]
    /\ UNCHANGED <<connVars, queueVars, suppVars, dictVars, confVars, sideVars, collVars, callVars, pcR, pcD>>

\* A sleep after which the loop goes on whatever time has passed.
CompletionSleepOn(c) ==
    /\ completion[c].pc = "sleep"
    /\ completion' = [completion EXCEPT ![c].waited = Min(@ + 1, PollCeiling + 1),
                                        ![c].pc = "poll"]
    /\ UNCHANGED <<connVars, queueVars, suppVars, dictVars, confVars, sideVars, collVars, callVars, pcR, pcD>>

\* lines 266-275 and 307-316: one poll of the in-progress flag
CompletionPoll(c) ==
    /\ completion[c].pc = "poll"
    /\ IF ~DictGet(query_in_progress, completion[c].arg, FALSE)
       THEN completion' = [completion EXCEPT
                              ![c].pc = "returned",
                              ![c].reported = DictGet(autocomplete_results, completion[c].arg, {})]
       ELSE completion' = [completion EXCEPT ![c].pc = "sleep"]
    /\ UNCHANGED <<connVars, queueVars, suppVars, dictVars, confVars, sideVars, collVars, callVars, pcR, pcD>>

\* lines 276 and 317, then 265 and 306: sleep 0.05 s, then the test of the
\* time passed
CompletionSleep(c) ==
    /\ completion[c].pc = "sleep"
    /\ LET waited == completion[c].waited + 1 IN
       completion' = [completion EXCEPT
                         ![c].waited = waited,
                         ![c].pc = IF waited < PollCeiling THEN "poll" ELSE "returned",
                         ![c].gaveUp = ~(waited < PollCeiling)]
    /\ UNCHANGED <<connVars, queueVars, suppVars, dictVars, confVars, sideVars, collVars, callVars, pcR, pcD>>

Completion(c) ==
    \/ \E t \in ProbeThreads, arg \in ReprobePrefixes : CompletionStart(c, t, arg)
    \/ \E arg \in ReprobePrefixes : CompletionCached(c, arg)
    \/ CompletionPoll(c)
    \/ CompletionSleep(c)

\* The session at its prompt: completion calls one after the other, the probe
\* threads they start, and a remote process that sends one chunk.
NextComplete ==
    \/ \E c \in CompletionCalls : Completion(c)
    \/ ReaderLoop \/ ReaderIdle \/ ReaderRecvOther \/ ReaderPut
    \/ \E t \in ProbeThreads : ProbeThread(t)
    \/ Tick

SpecComplete == InitLive /\ [][NextComplete]_vars

----------------------------------------------------------------------------
\* The tag of a chunk and the mode flag at the recv that returned its data.

\* lines 72-74: recv returns data; modeAtRead keeps what the mode flag is now
ReaderRecvSampling ==
    /\ pcR = "select"
    /\ sockOpen /\ peerUp
    /\ nread < MaxChunks
    /\ pcR' = "put"
    /\ modeAtRead' = is_autocomplete_query
    /\ UNCHANGED <<connVars, queueVars, suppVars, dictVars, confVars, parse, pending, lock, autocomplete_lock, completion, collVars, callVars, pcD>>

\* The session at its prompt: the user enters commands, completion calls
\* start probe threads, the remote process sends MaxChunks chunks and can
\* close the connection.
NextTag ==
    \/ ReaderLoop \/ ReaderIdle \/ ReaderRecvSampling \/ ReaderPut
    \/ \E t \in Callers : Caller(t)
    \/ UserCommand \/ UserPrint
    \/ \E arg \in Prefixes : StartProbeAlone(1, arg)
    \/ ServerClose
    \/ Tick

SpecTag == InitLive /\ [][NextTag]_vars

----------------------------------------------------------------------------
\* The session from its start to its end without completion calls.  The
\* reader thread and the display thread are scheduled again and again.
NextStop ==
    \/ Reader
    \/ Display
    \/ SendCheck(Main) \/ SendWrite(Main) \/ SendWriteFails(Main) \/ SendWait(Main)
    \/ GetReturn(Main) \/ GetPop(Main) \/ GetEmpty(Main)
    \/ ProbeSuppress(Main) \/ ProbeDrainCheck(Main) \/ ProbeDrainGet(Main)
    \/ ProbePublish(Main) \/ ProbeFinally(Main)
    \/ MainThread
    \/ ServerClose
    \/ Tick

SpecStop == Init /\ [][NextStop]_vars /\ WF_vars(Reader) /\ WF_vars(Display)

----------------------------------------------------------------------------
\* The three locks taken and released statement by statement: self.lock as
\* in send_command above, self.suppress_lock and self.autocomplete_lock.

\* The name under which thread t holds suppress_lock inside a probe.
Holder(t) == "probe" \o ToString(t)

\* lines 149, 172, 178 and 213: with self.suppress_lock
ProbeLockSuppress(t) ==
    /\ pc[t] \in {"p_suppress", "p_finally"}
    /\ suppress_lock = "free"
    /\ suppress_lock' = Holder(t)
    /\ Goto(t, IF pc[t] = "p_suppress" THEN "p_suppress_set" ELSE "p_finally_set")
    /\ UNCHANGED <<connVars, queueVars, suppress_output, dictVars, confVars, sideVars, completion, collVars, job, prefix, err, ret, pcR, pcD>>

\* A probe that keeps suppress_lock from its first with block to its last.
ProbeSetSuppressKeepsLock(t) ==
    /\ pc[t] \in {"p_suppress_set", "p_finally_set"}
    /\ suppress_output' = (pc[t] = "p_suppress_set")
    /\ suppress_lock' = IF pc[t] = "p_suppress_set" THEN suppress_lock ELSE "free"
    /\ Goto(t, CASE pc[t] = "p_suppress_set" -> "p_drain"
                  [] pc[t] = "p_finally_set" /\ job[t] = "ent" -> "done"
                  [] OTHER -> "u_prompt")
    /\ job' = [job EXCEPT ![t] = IF pc[t] = "p_finally_set" /\ @ = "cvar" THEN "user" ELSE @]
    /\ UNCHANGED <<connVars, queueVars, dictVars, confVars, sideVars, completion, collVars, prefix, err, ret, pcR, pcD>>

\* lines 150, 173, 179 and 214: set suppress_output; the with block ends
ProbeSetSuppress(t) ==
    /\ pc[t] \in {"p_suppress_set", "p_finally_set"}
    /\ suppress_output' = (pc[t] = "p_suppress_set")
    /\ suppress_lock' = "free"
    /\ Goto(t, CASE pc[t] = "p_suppress_set" -> "p_drain"
                  [] pc[t] = "p_finally_set" /\ job[t] = "ent" -> "done"
                  [] OTHER -> "u_prompt")
    /\ job' = [job EXCEPT ![t] = IF pc[t] = "p_finally_set" /\ @ = "cvar" THEN "user" ELSE @]
    /\ UNCHANGED <<connVars, queueVars, dictVars, confVars, sideVars, completion, collVars, prefix, err, ret, pcR, pcD>>

\* lines 203 and 209: with self.autocomplete_lock
ProbeLockResults(t) ==
    /\ job[t] = "ent"
    /\ pc[t] \in {"p_publish", "p_except"}
    /\ autocomplete_lock = {}
    /\ autocomplete_lock' = {<<"probe", t>>}
    /\ Goto(t, IF pc[t] = "p_publish" THEN "p_publish_store" ELSE "p_except_store")
    /\ UNCHANGED <<connVars, queueVars, suppVars, dictVars, confVars, parse, pending, lock, modeAtRead, completion, collVars, job, prefix, err, ret, pcR, pcD>>

\* lines 204-205 and 210-211: publish; the with block ends
ProbeStoreResults(t) ==
    /\ pc[t] \in {"p_publish_store", "p_except_store"}
    /\ autocomplete_results' =
          DictPut(autocomplete_results, prefix[t],
                  IF pc[t] = "p_publish_store" THEN ParseLines(result[t]) ELSE {})
    /\ query_in_progress' = DictPut(query_in_progress, prefix[t], FALSE)
    /\ autocomplete_lock' = autocomplete_lock \ {<<"probe", t>>}
    /\ IF pc[t] = "p_publish_store"
       THEN /\ result' = [result EXCEPT ![t] = <<>>]
            /\ popped' = [popped EXCEPT ![t] = <<>>]
            /\ sinceArrival' = [sinceArrival EXCEPT ![t] = TimeoutTicks]
            /\ UNCHANGED <<left, sincePop>>
       ELSE UNCHANGED collVars
    /\ Goto(t, "p_finally")
    /\ UNCHANGED <<connVars, queueVars, suppVars, last_prefix, confVars, parse, pending, lock, modeAtRead, completion, job, prefix, err, ret, pcR, pcD>>

\* lines 246 and 287: the argument is not the cached prefix
NotCached(arg) == arg # last_prefix \/ arg \notin DOMAIN autocomplete_results

\* lines 233-244 and 279-285: at the prompt a call for an entity command
\* begins; the model admits it while a probe thread is left for it to start
CompletionEnter(c, arg) ==
    /\ CallOver(c)
    /\ pc[Main] = "u_prompt"
    /\ \E t \in ProbeThreads : pc[t] \in {"idle", "done"}
    /\ completion' = [completion EXCEPT ![c] =
                         [pc |-> "lock", arg |-> arg, waited |-> 0, reported |-> {},
                          started |-> FALSE, gaveUp |-> FALSE]]
    /\ UNCHANGED <<connVars, queueVars, suppVars, dictVars, confVars, sideVars, collVars, callVars, pcR, pcD>>

\* lines 245, 266, 286 and 307: with self.console.autocomplete_lock
CompletionLock(c) ==
    /\ completion[c].pc \in {"lock", "poll"}
    /\ autocomplete_lock = {}
    /\ autocomplete_lock' = {<<"call", c>>}
    /\ completion' = [completion EXCEPT
                         ![c].pc = IF @ = "lock" THEN "branch" ELSE "polling"]
    /\ UNCHANGED <<connVars, queueVars, suppVars, dictVars, confVars, parse, pending, lock, modeAtRead, collVars, callVars, pcR, pcD>>

\* lines 246-253 and 287-294, inside the with block
CompletionStartLocked(c, t) ==
    /\ completion[c].pc = "branch"
    /\ StartProbe(t, completion[c].arg)
    /\ completion' = [completion EXCEPT ![c].pc = "unlock_started", ![c].started = TRUE]

\* lines 254-262 and 295-303, inside the with block
CompletionCachedLocked(c) ==
    /\ completion[c].pc = "branch"
    /\ ~NotCached(completion[c].arg)
    /\ completion' = [completion EXCEPT
                         ![c].pc = "unlock_cached",
                         ![c].reported = DictGet(autocomplete_results, completion[c].arg, {})]
    /\ UNCHANGED <<connVars, queueVars, suppVars, dictVars, confVars, sideVars, collVars, callVars, pcR, pcD>>

\* lines 267-275 and 308-316, inside the with block
CompletionPollLocked(c) ==
    /\ completion[c].pc = "polling"
    /\ IF ~DictGet(query_in_progress, completion[c].arg, FALSE)
       THEN completion' = [completion EXCEPT
                              ![c].pc = "unlock_clear",
                              ![c].reported = DictGet(autocomplete_results, completion[c].arg, {})]
       ELSE completion' = [completion EXCEPT ![c].pc = "unlock_busy"]
    /\ UNCHANGED <<connVars, queueVars, suppVars, dictVars, confVars, sideVars, collVars, callVars, pcR, pcD>>

\* lines 253, 262 and 275: the caller has taken what the call yielded and
\* the with block ends
CompletionUnlock(c) ==
    /\ completion[c].pc \in {"unlock_started", "unlock_cached", "unlock_clear", "unlock_busy"}
    /\ autocomplete_lock' = autocomplete_lock \ {<<"call", c>>}
    /\ completion' = [completion EXCEPT
                         ![c].pc = CASE @ = "unlock_started" -> "poll"
                                     [] @ = "unlock_busy" -> "sleep"
                                     [] OTHER -> "returned"]
    /\ UNCHANGED <<connVars, queueVars, suppVars, dictVars, confVars, parse, pending, lock, modeAtRead, collVars, callVars, pcR, pcD>>

\* connect has started the reader and the display thread of an interactive
\* session with continuous output and calls load_cvar_list.
InitLocks ==
    /\ running = TRUE
    /\ sockOpen = TRUE
    /\ peerUp = TRUE
    /\ wire = NoCommand
    /\ output_queue = <<>>
    /\ nread = 0
    /\ last_command = NoCommand
    /\ is_autocomplete_query = FALSE
    /\ suppress_output = FALSE
    /\ suppress_lock = "free"
    /\ autocomplete_results = EmptyDict
    /\ query_in_progress = EmptyDict
    /\ last_prefix = NoPrefix
    /\ interactive = TRUE
    /\ continuous_output = TRUE
    /\ pcR = "loop"
    /\ pcD = "loop"
    /\ pc = [t \in Callers |-> IF t = Main THEN "p_suppress" ELSE "idle"]
    /\ job = [t \in Callers |-> IF t = Main THEN "cvar" ELSE "ent"]
    /\ prefix = [t \in Callers |-> NoPrefix]
    /\ err = [t \in Callers |-> FALSE]
    /\ ret = "none"
    /\ result = [t \in Callers |-> <<>>]
    /\ popped = [t \in Callers |-> <<>>]
    /\ left = [t \in Callers |-> 0]
    /\ sincePop = [t \in Callers |-> TimeoutTicks]
    /\ sinceArrival = [t \in Callers |-> TimeoutTicks]
    /\ InitSide
    /\ completion = NoCalls

\* The main thread loads the variable list and comes to its prompt, where
\* completion calls start probe threads; the display thread prints, the
\* remote process sends one chunk.
NextLocks ==
    \/ ReaderLoop \/ ReaderIdle \/ ReaderRecvOther \/ ReaderPut
    \/ Display
    \/ \E t \in Callers :
          \/ ProbeLockSuppress(t) \/ ProbeSetSuppress(t)
          \/ ProbeDrainCheck(t) \/ ProbeDrainGet(t)
          \/ SendCheck(t) \/ SendLock(t) \/ SendRecordCommand(t) \/ SendRecordMode(t)
          \/ SendSocket(t)
          \/ GetReturn(t) \/ GetPop(t) \/ GetEmpty(t)
          \/ ProbeLockResults(t) \/ ProbeStoreResults(t)
    \/ job[Main] = "cvar" /\ ProbePublish(Main)
    \/ \E c \in CompletionCalls :
          \/ \E arg \in Prefixes : CompletionEnter(c, arg)
          \/ CompletionLock(c)
          \/ \E t \in ProbeThreads : CompletionStartLocked(c, t)
          \/ CompletionCachedLocked(c) \/ CompletionPollLocked(c)
          \/ CompletionUnlock(c) \/ CompletionSleep(c)
    \/ Tick

SpecLocks == InitLocks /\ [][NextLocks]_vars

----------------------------------------------------------------------------
\* The parse of query_entities, lines 186-201, character by character.  A text
\* is a sequence of characters, a character a string of length one.

Quote == "'"
Colon == ":"
Space == " "
NewLine == "\n"

\* ord(c) of the characters the texts are made of
CharCode(c) ==
    CASE c = NewLine -> 10 [] c = Space -> 32 [] c = Quote -> 39 [] c = Colon -> 58
      [] c = "A" -> 65 [] c = "B" -> 66 [] c = "a" -> 97 [] c = "b" -> 98
      [] c = "x" -> 120

\* str.lower()
LowerChar(c) == IF c = "A" THEN "a" ELSE IF c = "B" THEN "b" ELSE c
LowerStr(str) == [i \in DOMAIN str |-> LowerChar(str[i])]

\* str.startswith(start)
StartsWith(str, start) ==
    Len(start) <= Len(str) /\ SubSeq(str, 1, Len(start)) = start

\* str < other, the order sorted() uses
StrLess(str, other) ==
    \E k \in 0..Min(Len(str), Len(other)) :
        /\ SubSeq(str, 1, k) = SubSeq(other, 1, k)
        /\ \/ k = Len(str) /\ k < Len(other)
           \/ /\ k < Len(str) /\ k < Len(other)
              /\ CharCode(str[k + 1]) < CharCode(other[k + 1])

\* str.splitlines(), line 128
RECURSIVE SplitLines(_)
SplitLines(text) ==
    IF text = <<>> THEN <<>>
    ELSE LET breaks == {i \in DOMAIN text : text[i] = NewLine} IN
         IF breaks = {} THEN <<text>>
         ELSE LET k == CHOOSE i \in breaks : \A j \in breaks : i <= j IN
              <<SubSeq(text, 1, k - 1)>> \o SplitLines(SubSeq(text, k + 1, Len(text)))

\* \s* of the pattern from position i on: the position after the white space
RECURSIVE SkipSpaces(_, _)
SkipSpaces(line, i) ==
    IF i <= Len(line) /\ line[i] = Space THEN SkipSpaces(line, i + 1) ELSE i

CharAt(line, i, c) == i <= Len(line) /\ line[i] = c

NoMatch == [matched |-> FALSE, class |-> <<>>, entity |-> <<>>]

\* The pattern from the quote that ends the class group on, tried with that
\* quote at position i:  '\s*:\s*'(?P<entity>.*?)'
MatchTail(line, i) ==
    LET colon == SkipSpaces(line, i + 1)
        open == SkipSpaces(line, colon + 1)
        closes == {e \in (open + 1)..Len(line) : line[e] = Quote}
    IN  IF CharAt(line, i, Quote) /\ CharAt(line, colon, Colon)
           /\ CharAt(line, open, Quote) /\ closes # {}
        THEN [matched |-> TRUE, class |-> <<>>,
              entity |-> SubSeq(line, open + 1,
                                (CHOOSE e \in closes : \A f \in closes : e <= f) - 1)]
        ELSE NoMatch

\* (?P<class>.*?) from position first on: the shortest class after which the
\* rest of the pattern matches
RECURSIVE MatchClass(_, _, _)
MatchClass(line, first, i) ==
    IF i > Len(line) THEN NoMatch
    ELSE LET tail == MatchTail(line, i) IN
         IF tail.matched
         THEN [matched |-> TRUE, class |-> SubSeq(line, first, i - 1), entity |-> tail.entity]
         ELSE MatchClass(line, first, i + 1)

\* re.match(r"\s*'(?P<class>.*?)'\s*:\s*'(?P<entity>.*?)'", line), line 191
MatchLine(line) ==
    LET open == SkipSpaces(line, 1) IN
    IF CharAt(line, open, Quote) THEN MatchClass(line, open + 1, open + 1) ELSE NoMatch

\* lines 188-198: class_names + entity_names after the loop over the lines
RECURSIVE MatchedNames(_, _, _, _)
MatchedNames(lines, start, find_class_names, find_entity_names) ==
    IF lines = <<>> THEN [class_names |-> <<>>, entity_names |-> <<>>]
    ELSE LET m == MatchLine(Head(lines))
             rest == MatchedNames(Tail(lines), start, find_class_names, find_entity_names)
             class_name == IF /\ m.matched /\ find_class_names
                              /\ StartsWith(LowerStr(m.class), LowerStr(start))
                           THEN <<m.class>> ELSE <<>>
             entity_name == IF /\ m.matched /\ find_entity_names
                               /\ StartsWith(LowerStr(m.entity), LowerStr(start))
                            THEN <<m.entity>> ELSE <<>>
         IN  [class_names |-> class_name \o rest.class_names,
              entity_names |-> entity_name \o rest.entity_names]

\* A list in an order that is not the sorted one: the greatest first.
RECURSIVE SortedDescending(_)
SortedDescending(names) ==
    IF names = {} THEN <<>>
    ELSE LET top == CHOOSE n \in names : \A o \in names \ {n} : StrLess(o, n) IN
         <<top>> \o SortedDescending(names \ {top})

\* sorted(set(...)), line 201
RECURSIVE SortedList(_)
SortedList(names) ==
    IF names = {} THEN <<>>
    ELSE LET least == CHOOSE n \in names : \A o \in names \ {n} : StrLess(n, o) IN
         <<least>> \o SortedList(names \ {least})

\* lines 186-201: combined_results of the text collected
CombinedResults(text, start, find_class_names, find_entity_names) ==
    LET found == MatchedNames(SplitLines(text), start, find_class_names, find_entity_names)
        names == found.class_names \o found.entity_names
    IN  SortedList({names[i] : i \in DOMAIN names})

\* The texts parsed: up to MaxLines lines, each one of SampleLines.
MaxLines == 2

SampleNames == {<<"a">>, <<"A", "b">>, <<"b">>}
SamplePrefixes == {<<"a">>, <<"A">>, <<"a", "b">>}

\* 'class':'entity', then with white space, then with more text after it
PlainLine(class, entity) ==
    <<Quote>> \o class \o <<Quote, Colon, Quote>> \o entity \o <<Quote>>
SpacedLine(class, entity) ==
    <<Space, Quote>> \o class \o <<Quote, Space, Colon, Space, Quote>> \o entity \o <<Quote>>
TrailedLine(class, entity) == PlainLine(class, entity) \o <<Space, "x">>

SampleLines ==
    {PlainLine(c, e) : c \in SampleNames, e \in SampleNames}
    \cup {SpacedLine(c, e) : c \in SampleNames, e \in SampleNames}
    \cup {TrailedLine(c, e) : c \in SampleNames, e \in SampleNames}
    \cup { <<>>,
           <<"x">> \o PlainLine(<<"a">>, <<"a">>),
           <<Quote, "a", Quote, Quote, "a", Quote>>,
           <<Quote, "a", Quote, Colon, Quote, "a">>,
           <<"a", Colon, "a">>,
           <<Quote, "a", Quote, "b", Quote, Colon, Quote, "a", Quote>>,
           <<Quote, Quote, Colon, Quote, Quote>> }

RECURSIVE JoinLines(_)
JoinLines(lines) ==
    IF lines = <<>> THEN <<>>
    ELSE IF Len(lines) = 1 THEN lines[1]
    ELSE lines[1] \o <<NewLine>> \o JoinLines(Tail(lines))

SampleTexts ==
    {JoinLines(lines) : lines \in UNION {[1..n -> SampleLines] : n \in 0..MaxLines}}

\* query_entities is handed a text, a prefix and its two flags.
InitParse ==
    /\ AtPrompt
    /\ completion = NoCalls
    /\ pending = <<>> /\ lock = {} /\ modeAtRead = FALSE /\ autocomplete_lock = {}
    /\ \E text \in SampleTexts, start \in SamplePrefixes, classes \in BOOLEAN, entities \in BOOLEAN :
          parse = [text |-> text, prefix |-> start, find_class_names |-> classes,
                   find_entity_names |-> entities, combined_results |-> <<>>,
                   parsed |-> FALSE]

\* lines 186-201
ParseText ==
    /\ ~parse.parsed
    /\ parse' = [parse EXCEPT
                   !.combined_results = CombinedResults(parse.text, parse.prefix,
                                            parse.find_class_names, parse.find_entity_names),
                   !.parsed = TRUE]
    /\ UNCHANGED <<connVars, queueVars, suppVars, dictVars, confVars, collVars, callVars, pcR, pcD>>
    /\ UNCHANGED <<pending, lock, modeAtRead, autocomplete_lock, completion>>

NextParse == ParseText

SpecParse == InitParse /\ [][NextParse]_vars

----------------------------------------------------------------------------
\* Steps and positions the properties speak of.

\* The display thread takes a step that removes a chunk (and prints it).
DisplayRemoves == pcD' # pcD /\ output_queue' # output_queue

\* A caller pops a chunk, in a drain loop or in get_output.
ConsumerStep ==
    /\ pcD' = pcD /\ pcR' = pcR
    /\ output_queue # <<>> /\ output_queue' = Tail(output_queue)

\* The caller runs load_cvar_list or query_entities.
InProbe(t) == job[t] # "user" /\ pc[t] \notin {"idle", "done", "connect"}

\* The probe has set suppress_output and its get_output call has not returned.
ProbeOwnsQueue(t) ==
    /\ job[t] # "user"
    /\ pc[t] \in {"p_drain", "p_drain_get", "s_check", "s_write", "g_loop", "g_sleep"}

\* The caller's get_output call has just returned.
Returned(t) == pc[t] \in {"p_publish", "u_print"}

Seqs(q) == {q[i].seq : i \in DOMAIN q}
Increasing(q) == \A i, j \in DOMAIN q : i < j => q[i].seq < q[j].seq

----------------------------------------------------------------------------
\* C1: the display thread never prints a probe-tagged chunk: every chunk it
\* removes from the queue and prints carries is_probe = FALSE.
C1_DisplayEmitsNoProbeChunk ==
    [][DisplayRemoves => ~Head(output_queue).is_probe]_vars

\* C2: while suppress_output is true the display thread removes no chunk, and
\* apart from the steps of the other consumers (drain loops, get_output) every
\* step leaves the queue as it is or appends the chunk just read at its tail: so
\* when no other consumer runs, the queue at the end of a suppression is the
\* queue at its start followed by exactly the chunks put meanwhile, in order.
C2_SuppressedQueueKept ==
    [][suppress_output =>
          /\ ~DisplayRemoves
          /\ \/ ConsumerStep
             \/ output_queue' = output_queue
             \/ /\ Len(output_queue') = Len(output_queue) + 1
                /\ SubSeq(output_queue', 1, Len(output_queue)) = output_queue
                /\ output_queue'[Len(output_queue')].seq = nread + 1
                /\ pcR' # pcR]_vars

\* C2 witness: the display thread idles under the suppression while two chunks
\* that were put during it, and that no consumer popped, wait in arrival order.
C2_Witness ==
    /\ suppress_output /\ pcD = "suppressed"
    /\ \E t \in ProbeThreads : pc[t] = "p_publish" /\ popped[t] = <<>>
    /\ Len(output_queue) = 2 /\ Increasing(output_queue)

\* C3: from the moment a probe has set suppress_output until its get_output
\* call has returned, the display thread removes no chunk.
C3_DisplayKeepsOffProbeQueue ==
    [][(\E t \in Callers : ProbeOwnsQueue(t)) => ~DisplayRemoves]_vars

\* C4: the text a probe collects (and parses) holds probe-tagged chunks only.
C4_ProbeTextOnlyProbeChunks ==
    \A t \in Callers : job[t] # "user" =>
        \A i \in DOMAIN result[t] : result[t][i].is_probe

\* C5 as claimed: get_output returns no earlier than the timeout after the last
\* chunk arrived in the queue.
C5_ReturnsTimeoutAfterLastArrival ==
    \A t \in Callers : Returned(t) => sinceArrival[t] >= TimeoutTicks

\* C5 as amended: get_output returns no earlier than the timeout after the last
\* chunk it popped (after the call began when it popped none), and while it
\* runs its deadline is never earlier than the timeout after that pop.
C5_ReturnsTimeoutAfterLastPop ==
    \A t \in Callers :
        /\ Returned(t) => sincePop[t] >= TimeoutTicks
        /\ InGetOutput(t) => left[t] + sincePop[t] >= TimeoutTicks

\* C5 witness: a call has returned after popping chunks, the timeout after its
\* last pop, while a chunk that arrived less than the timeout ago is queued.
C5_Witness ==
    \E t \in Callers :
        /\ Returned(t) /\ popped[t] # <<>>
        /\ sincePop[t] = TimeoutTicks /\ sinceArrival[t] < TimeoutTicks
        /\ output_queue # <<>>

\* The chunks a get_output call selects: all of them with
\* filter_autocomplete = True (the probes), the non-probe ones with False (main).
Selected(t, c) == IF job[t] = "user" THEN ~c.is_probe ELSE TRUE
SelectedOf(t, q) == SelectSeq(q, LAMBDA c : Selected(t, c))

\* C6: the result of get_output is the concatenation, in the order the reader
\* put them, of exactly the popped chunks that match the selection; a popped
\* chunk is in no queue and in no other call's hands; only the head of the
\* queue ever leaves it and only a chunk just read enters it, at its tail, so
\* that a chunk that has left the queue never comes back into it.
C6_ResultIsSelectionInOrder ==
    /\ [](\A t \in Callers :
            /\ result[t] = SelectedOf(t, popped[t])
            /\ Increasing(popped[t])
            /\ \A i \in DOMAIN popped[t] :
                  /\ \A k \in DOMAIN output_queue : popped[t][i].seq # output_queue[k].seq
                  /\ \A u \in Callers \ {t} :
                        \A k \in DOMAIN popped[u] : popped[t][i].seq # popped[u][k].seq)
    /\ [](Increasing(output_queue))
    /\ [][\/ output_queue' = output_queue
          \/ output_queue # <<>> /\ output_queue' = Tail(output_queue)
          \/ /\ Len(output_queue') = Len(output_queue) + 1
             /\ SubSeq(output_queue', 1, Len(output_queue)) = output_queue
             /\ output_queue'[Len(output_queue')].seq = nread + 1]_vars

\* C6 witness: a call of main has returned one chunk of the two it popped; the
\* other one, probe-tagged, is discarded.
C6_Witness ==
    /\ pc[Main] = "u_print"
    /\ Len(popped[Main]) = 2 /\ Len(result[Main]) = 1
    /\ \E i \in DOMAIN popped[Main] : popped[Main][i].is_probe

\* C7: when load_cvar_list or query_entities ends, by its normal path or by an
\* exception, suppress_output is false; it is true only while a probe runs.
C7_ProbeEndReleasesSuppress ==
    /\ [](suppress_output => \E t \in Callers : InProbe(t))
    /\ [][\A t \in Callers : (InProbe(t) /\ ~InProbe(t)') => ~suppress_output']_vars

\* C7 witness: a probe that left its try block by an exception has ended.
C7_Witness ==
    \E t \in ProbeThreads : pc[t] = "done" /\ err[t] /\ ~suppress_output

\* The probe thread has published a result set for its prefix and cleared the
\* in-progress flag; the set is empty when an exception ended its try block.
Published(t) ==
    /\ pc[t] = "p_finally"
    /\ prefix[t] \in DOMAIN autocomplete_results
    /\ DictGet(query_in_progress, prefix[t], TRUE) = FALSE
    /\ err[t] => autocomplete_results[prefix[t]] = {}

\* C8 as claimed: every probe started eventually publishes a result set for
\* its prefix and clears the in-progress flag.
C8_ProbeEventuallyPublishes ==
    \A t \in ProbeThreads : (pc[t] = "p_suppress") ~> Published(t)

\* C8 as amended: every probe started publishes, provided that from some time
\* on no chunk is added to the queue; the set is empty after an exception.
C8_ProbePublishesOnceQuiet ==
    \A t \in ProbeThreads :
        <>[][Len(output_queue') <= Len(output_queue)]_vars
            => ((pc[t] = "p_suppress") ~> Published(t))

\* C8 witness: a probe has published the empty set after an exception.
C8_Witness ==
    \E t \in ProbeThreads : Published(t) /\ err[t]

\* C9: a send_command call that finds running false returns NotConnected in
\* that step: it neither goes on to the write nor to the wait, and the socket,
\* last_command, the mode flag and the queue stay as they are.
C9_NotConnectedAtOnce ==
    [][\A t \in Callers :
          (pc[t] = "s_check" /\ pc'[t] # pc[t] /\ ~running) =>
              /\ ret' = "NotConnected"
              /\ pc'[t] \notin {"s_write", "s_wait"}
              /\ wire' = wire
              /\ last_command' = last_command
              /\ is_autocomplete_query' = is_autocomplete_query
              /\ output_queue' = output_queue]_vars

\* C9 witness: a call has returned NotConnected after a command had been sent.
C9_Witness == ret = "NotConnected" /\ ~running /\ wire # NoCommand

\* C10: after a zero-length read the reader sets running to false, then puts
\* one "connection closed" chunk tagged non-probe, then has terminated and
\* puts nothing more.
C10_EofMarksClosesStops ==
    /\ [](pcR \in {"eof_put", "closed"} => ~running)
    /\ [][(pcR = "eof" /\ pcR' # pcR) => (pcR' = "eof_put" /\ output_queue' = output_queue)]_vars
    /\ [][(pcR = "eof_put" /\ pcR' # pcR) =>
             /\ pcR' = "closed"
             /\ output_queue' = Append(output_queue,
                    [seq |-> nread + 1, is_probe |-> FALSE, kind |-> "closed"])]_vars
    /\ [][pcR = "closed" =>
             /\ pcR' = "closed" /\ nread' = nread
             /\ \/ output_queue' = output_queue
                \/ output_queue # <<>> /\ output_queue' = Tail(output_queue)]_vars

\* C10 witness: the reader has terminated on a zero-length read while the mode
\* flag was set, and its message is the last chunk of the queue.
C10_Witness ==
    /\ pcR = "closed" /\ ~running /\ is_autocomplete_query
    /\ output_queue # <<>>
    /\ output_queue[Len(output_queue)].kind = "closed"

----------------------------------------------------------------------------
\* Lines of the form 'class' : 'entity', said without the matcher: white space,
\* the quoted class, white space, a colon, white space, the quoted entity,
\* then anything.
AllSpaces(line, from, to) == to <= Len(line) /\ \A i \in from..to : line[i] = Space

PieceAt(line, from, piece) ==
    /\ from + Len(piece) - 1 <= Len(line)
    /\ SubSeq(line, from, from + Len(piece) - 1) = piece

OfForm(line, class, entity) ==
    \E s1 \in 0..Len(line) :
        LET q1 == s1 + 1
            q2 == q1 + Len(class) + 1
        IN  /\ AllSpaces(line, 1, s1) /\ CharAt(line, q1, Quote)
            /\ PieceAt(line, q1 + 1, class) /\ CharAt(line, q2, Quote)
            /\ \E s2 \in 0..Len(line) :
                  /\ AllSpaces(line, q2 + 1, q2 + s2) /\ CharAt(line, q2 + s2 + 1, Colon)
                  /\ \E s3 \in 0..Len(line) :
                        LET q3 == q2 + s2 + 1 + s3 + 1 IN
                        /\ AllSpaces(line, q2 + s2 + 2, q3 - 1) /\ CharAt(line, q3, Quote)
                        /\ PieceAt(line, q3 + 1, entity)
                        /\ CharAt(line, q3 + Len(entity) + 1, Quote)

\* what stands between two quotes of the line
Pieces(line) ==
    {SubSeq(line, a + 1, b - 1) : a \in {i \in DOMAIN line : line[i] = Quote},
                                  b \in {i \in DOMAIN line : line[i] = Quote}}

Listed(list) == {list[i] : i \in DOMAIN list}

\* C12: the list query_entities computes from a response text is sorted and
\* free of duplicates; each member starts with the prefix, case ignored, and is
\* the class name (only when class names are asked for) or the entity name
\* (only when entity names are asked for) of a line of the form
\* 'class' : 'entity'; and every such name of a well-formed line is a member.
C12_ListIsSortedSelectionOfNames ==
    parse.parsed =>
        LET out == parse.combined_results
            lines == SplitLines(parse.text)
            start == LowerStr(parse.prefix)
        IN  /\ \A i \in DOMAIN out, j \in DOMAIN out : i < j => StrLess(out[i], out[j])
            /\ \A i \in DOMAIN out :
                  /\ StartsWith(LowerStr(out[i]), start)
                  /\ \E k \in DOMAIN lines :
                        \/ /\ parse.find_class_names
                           /\ \E entity \in Pieces(lines[k]) : OfForm(lines[k], out[i], entity)
                        \/ /\ parse.find_entity_names
                           /\ \E class \in Pieces(lines[k]) : OfForm(lines[k], class, out[i])
            /\ \A k \in DOMAIN lines, class \in SampleNames, entity \in SampleNames :
                  lines[k] \in {PlainLine(class, entity), SpacedLine(class, entity),
                                TrailedLine(class, entity)} =>
                      /\ (parse.find_class_names /\ StartsWith(LowerStr(class), start))
                            => class \in Listed(out)
                      /\ (parse.find_entity_names /\ StartsWith(LowerStr(entity), start))
                            => entity \in Listed(out)

\* Prefix "a" over ' b' : 'Ab' and 'b':'a', entity names only, gives ["Ab", "a"]:
\* the prefix matches with case ignored and the order is that of the code points.
C12_Witness ==
    /\ parse.parsed
    /\ parse.prefix = <<"a">> /\ ~parse.find_class_names /\ parse.find_entity_names
    /\ parse.text = JoinLines(<<SpacedLine(<<"b">>, <<"A", "b">>), PlainLine(<<"b">>, <<"a">>)>>)
    /\ parse.combined_results = << <<"A", "b">>, <<"a">> >>

\* C13: a set published for a prefix is the set published for it before: with
\* the remote process answering every find_ent with the same text, publishing
\* again changes no entry of autocomplete_results.
C13_ReprobePublishesSameSet ==
    [][\A p \in DOMAIN autocomplete_results :
          autocomplete_results'[p] = autocomplete_results[p]]_vars

----------------------------------------------------------------------------
\* The is_autocomplete argument a written command was sent with.
ModeOfCommand(cmd) == cmd # "cmd"

InWrite(t) == pc[t] \in {"s_record", "s_mode", "s_send"}

----------------------------------------------------------------------------
\* A completion call begins, and what it finds: the condition of lines 246
\* and 287 for the argument of the call.
CallBegins(c) == CallOver(c) /\ completion'[c] # completion[c]

\* C15 as stated: a call that started a probe returns without candidates.
C15_StartingCallReportsNothing ==
    \A c \in CompletionCalls :
        (completion[c].started /\ completion[c].pc = "returned") => completion[c].reported = {}

\* C15: a call whose argument is not the cached prefix starts a probe thread
\* for it, with the in-progress flag of the argument set in the same step,
\* and reports nothing in that step; it then goes on to poll.  A call whose
\* argument is the cached prefix returns the cached set and starts no probe.
C15_StartsProbeOrReturnsCache ==
    [][\A c \in CompletionCalls :
          CallBegins(c) =>
              LET arg == completion'[c].arg IN
              IF NotCached(arg)
              THEN /\ \E t \in ProbeThreads :
                         /\ pc[t] \in {"idle", "done"} /\ pc'[t] = "p_suppress"
                         /\ prefix'[t] = arg
                   /\ arg \in DOMAIN query_in_progress' /\ query_in_progress'[arg]
                   /\ last_prefix' = arg
                   /\ completion'[c].pc = "poll" /\ completion'[c].reported = {}
                   /\ completion'[c].started
              ELSE /\ completion'[c].pc = "returned"
                   /\ completion'[c].reported = autocomplete_results[arg]
                   /\ ~completion'[c].started
                   /\ pc' = pc /\ query_in_progress' = query_in_progress
                   /\ last_prefix' = last_prefix]_vars

\* A call has returned the cached set, which is not empty.
C15_Witness ==
    \E c \in CompletionCalls :
        /\ completion[c].pc = "returned" /\ ~completion[c].started
        /\ completion[c].arg = last_prefix
        /\ completion[c].reported # {}
        /\ completion[c].reported = autocomplete_results[completion[c].arg]

CallSteps(c) == ~CallOver(c) /\ completion'[c] # completion[c]

\* C16: a call that waits polls the in-progress flag of its argument fewer
\* than PollCeiling times after the first; a poll that finds the flag clear
\* returns the published set, any other poll reports nothing; after the last
\* sleep the call gives up with no candidates, whatever the probe does; the
\* steps of the call leave the probe thread and the dicts as they are, so the
\* probe publishes whether the call waits or not.
C16_WaitIsBounded ==
    /\ [](\A c \in CompletionCalls :
             /\ completion[c].waited <= PollCeiling
             /\ ~CallOver(c) => completion[c].waited < PollCeiling
             /\ completion[c].gaveUp =>
                   (completion[c].pc = "returned" /\ completion[c].reported = {}))
    /\ [][\A c \in CompletionCalls :
             (completion[c].pc = "poll" /\ CallSteps(c)) =>
                 IF DictGet(query_in_progress, completion[c].arg, FALSE)
                 THEN completion'[c].pc = "sleep" /\ completion'[c].reported = {}
                 ELSE /\ completion'[c].pc = "returned" /\ ~completion'[c].gaveUp
                      /\ completion'[c].reported =
                            DictGet(autocomplete_results, completion[c].arg, {})]_vars
    /\ [][\A c \in CompletionCalls :
             (completion[c].pc = "sleep" /\ CallSteps(c)) =>
                 /\ completion'[c].waited = completion[c].waited + 1
                 /\ completion'[c].pc \in {"poll", "returned"}
                 /\ completion'[c].pc = "returned" =>
                       (completion'[c].gaveUp /\ completion'[c].waited = PollCeiling)]_vars
    /\ [][\A c \in CompletionCalls :
             CallSteps(c) => (pc' = pc /\ dictVars' = dictVars /\ prefix' = prefix)]_vars

\* A call gave up on the probe it started, and the probe has published since.
C16_Witness ==
    \E c \in CompletionCalls :
        /\ completion[c].gaveUp /\ completion[c].started
        /\ completion[c].waited = PollCeiling
        /\ DOMAIN autocomplete_results = {completion[c].arg}
        /\ query_in_progress[completion[c].arg] = FALSE
        /\ autocomplete_results[completion[c].arg] # {}

----------------------------------------------------------------------------
\* The reader puts a chunk.
ReaderPuts == pcR = "put" /\ pcR' = "loop" /\ Len(output_queue') = Len(output_queue) + 1

----------------------------------------------------------------------------
ReaderOver == pcR \in {"none", "done", "closed", "failed"}
DisplayOver == pcD \in {"none", "done"}

\* C18: once running is false it stays false until the session ends, the
\* reader loop and the display loop leave at their next loop head, and both
\* reach it: with running false each of them ends.
C18_LoopsEndOnceNotRunning ==
    /\ [][(pcR = "loop" /\ ~running /\ pcR' # pcR) => pcR' = "done"]_vars
    /\ [][(pcD = "loop" /\ ~running /\ pcD' # pcD) => pcD' = "done"]_vars
    /\ (~running /\ pcR # "none") ~> ReaderOver
    /\ (~running /\ pcD # "none") ~> DisplayOver

\* Both loops have ended after a failed write, with the socket still open.
C18_Witness ==
    /\ ~running /\ sockOpen /\ ret = "WriteFailure"
    /\ pcR = "done" /\ pcD = "done"

----------------------------------------------------------------------------
\* A probe thread for the prefix that has not published yet.
InFlight(t, p) ==
    /\ job[t] = "ent" /\ prefix[t] = p
    /\ pc[t] \in {"p_suppress", "p_drain", "p_drain_get", "s_check", "s_write",
                  "g_loop", "g_sleep", "p_publish", "p_except"}

\* C19: at most one probe thread is in flight for a prefix, and a prefix whose
\* in-progress flag is false has no probe thread in flight.
C19_OneProbeInFlightPerPrefix ==
    \A p \in ReprobePrefixes :
        /\ Cardinality({t \in ProbeThreads : InFlight(t, p)}) <= 1
        /\ (p \in DOMAIN query_in_progress /\ ~query_in_progress[p]) =>
               \A t \in ProbeThreads : ~InFlight(t, p)

----------------------------------------------------------------------------
\* C20: the mode flag is true only while a probe is under way (read here in
\* the widest sense: some load_cvar_list or query_entities has begun and has
\* not ended), and a chunk put while no probe is under way is tagged
\* non-probe.
C20_ModeFlagOnlyDuringProbe ==
    /\ [](is_autocomplete_query => \E t \in Callers : InProbe(t))
    /\ [][(ReaderPuts /\ \A t \in Callers : ~InProbe(t)) =>
             ~output_queue'[Len(output_queue')].is_probe]_vars

----------------------------------------------------------------------------
\* The locks a probe thread holds, the positions where it waits for one, and
\* whether the lock it waits for is taken.
LocksOfProbe(t) ==
    (IF t \in lock THEN {"lock"} ELSE {})
    \cup (IF suppress_lock = Holder(t) THEN {"suppress_lock"} ELSE {})
    \cup (IF <<"probe", t>> \in autocomplete_lock THEN {"autocomplete_lock"} ELSE {})

ProbeWaits(t) ==
    \/ pc[t] \in {"s_write", "p_suppress", "p_finally"}
    \/ pc[t] \in {"p_publish", "p_except"} /\ job[t] = "ent"

ProbeBlocked(t) ==
    \/ pc[t] = "s_write" /\ lock # {}
    \/ pc[t] \in {"p_suppress", "p_finally"} /\ suppress_lock # "free"
    \/ pc[t] \in {"p_publish", "p_except"} /\ job[t] = "ent" /\ autocomplete_lock # {}

\* C21: the write lock, suppress_lock and autocomplete_lock are never nested:
\* no thread holds two of them, and no thread waits for one of them while it
\* holds another; a probe that drains the queue, writes to the socket or
\* collects output does not hold suppress_lock; every lock that is taken is
\* held by a thread that can take its next step, so the display, probe and
\* completion threads are never all blocked on locks.
C21_LocksNeverNested ==
    /\ \A t \in Callers :
          /\ Cardinality(LocksOfProbe(t)) <= 1
          /\ ProbeWaits(t) => LocksOfProbe(t) = {}
          /\ pc[t] \in {"p_drain", "p_drain_get", "s_check", "s_write", "s_record",
                        "s_mode", "s_send", "g_loop", "g_sleep"}
                => suppress_lock # Holder(t)
    /\ pcD = "acquire" => suppress_lock # "display"
    /\ \A c \in CompletionCalls :
          completion[c].pc \in {"lock", "poll"} => <<"call", c>> \notin autocomplete_lock
    /\ Cardinality(lock) <= 1 /\ Cardinality(autocomplete_lock) <= 1
    /\ lock # {} =>
          \E t \in lock :
             ENABLED (SendRecordCommand(t) \/ SendRecordMode(t) \/ SendSocket(t))
    /\ suppress_lock # "free" =>
          ENABLED (\/ DisplaySuppressed \/ DisplayGet \/ DisplayEmpty
                   \/ \E t \in Callers :
                         suppress_lock = Holder(t) /\ ProbeSetSuppress(t))
    /\ autocomplete_lock # {} =>
          ENABLED (\/ \E t \in ProbeThreads :
                         <<"probe", t>> \in autocomplete_lock /\ ProbeStoreResults(t)
                   \/ \E c \in CompletionCalls :
                         /\ <<"call", c>> \in autocomplete_lock
                         /\ \/ \E t \in ProbeThreads : CompletionStartLocked(c, t)
                            \/ CompletionCachedLocked(c) \/ CompletionPollLocked(c)
                            \/ CompletionUnlock(c))
    /\ ~ /\ pcD = "acquire" /\ suppress_lock # "free"
         /\ \A t \in ProbeThreads : ProbeBlocked(t)
         /\ \A c \in CompletionCalls :
               completion[c].pc \in {"lock", "poll"} /\ autocomplete_lock # {}

\* All three locks are taken at once, by three threads: the display thread
\* holds suppress_lock, one probe holds the write lock inside send_command,
\* the other probe holds autocomplete_lock to publish, and the completion call
\* waits for autocomplete_lock.
C21_Witness ==
    /\ suppress_lock = "display"
    /\ \E t \in ProbeThreads : t \in lock /\ pc[t] = "s_send"
    /\ \E t \in ProbeThreads :
          <<"probe", t>> \in autocomplete_lock /\ pc[t] = "p_publish_store"
    /\ \E c \in CompletionCalls : completion[c].pc = "poll"

====
